---- MODULE Spec2Model ----
(***************************************************************************)
(* Model of scripts/buco-set-overlap/compare-busco-sets.py: the parser     *)
(* read_ids, the matcher find_overlaps, the plot ordering of               *)
(* generate_image, the tabular writer write_overlaps and the sequence of   *)
(* calls in main; then scripts/raw-to-s3.py (uploader), scripts/GCF2GCA.py  *)
(* (renamer) and replace_substrings of scripts/import-from-s3.py           *)
(* (templater), each a script of its own with its own specification. The   *)
(* variables of a script that is not running hold the empty tuple.         *)
(*                                                                         *)
(* A Python str is a sequence of one-character strings, a csv row is a     *)
(* sequence of such fields, a dict is the sequence of its entries in       *)
(* insertion order, a tuple of the code is a tuple here (x[2] of the code  *)
(* is x[3] here: TLA+ counts from 1).                                      *)
(***************************************************************************)
EXTENDS Integers, Sequences, FiniteSets

VARIABLES pc, rows, ids1, ids2, overlaps, out, err, uploader, renamer, templater

vars == <<pc, rows, ids1, ids2, overlaps, out, err, uploader, renamer, templater>>

\* Largest coordinate written in the input rows.
MaxCoord == 3

\* Largest number of rows of an input file.
MaxRows == 2

\* Largest number of --vars arguments of the upload script.
MaxVars == 2

\* Largest number of entries of the upload config.
MaxEntries == 2

\* Deepest nesting of a value of a template below its top-level keys.
MaxDepth == 2

\* Largest number of objects in the bucket when the renaming starts.
MaxObjects == 2

(***************************************************************************)
(* Strings                                                                 *)
(***************************************************************************)
TAB == "\t"
NL == "\n"

\* Python's None; no str of the model is a one-element sequence of a long string.
NoneValue == <<"NoneType">>

Digits == <<"0", "1", "2", "3", "4", "5", "6", "7", "8", "9">>

IsDigit(c) == \E d \in 1..10 : Digits[d] = c

DigitVal(c) == (CHOOSE d \in 1..10 : Digits[d] = c) - 1

Max(a, b) == IF a >= b THEN a ELSE b

Min(a, b) == IF a <= b THEN a ELSE b

\* str(n) of a non-negative int: its decimal digits.
RECURSIVE str_nat(_)
str_nat(n) == IF n < 10 THEN <<Digits[n + 1]>>
              ELSE str_nat(n \div 10) \o <<Digits[(n % 10) + 1]>>

\* str(n) of an int, as an f-string formats it.
str_int(n) == IF n < 0 THEN <<"-">> \o str_nat(0 - n) ELSE str_nat(n)

\* The f-string conversion of an identifier field: a str is itself, None is "None".
str_id(x) == IF x = NoneValue THEN <<"N", "o", "n", "e">> ELSE x

\* s.strip() for the blank the inputs use.
RECURSIVE strip(_)
strip(s) == IF s = <<>> THEN s
            ELSE IF Head(s) = " " THEN strip(Tail(s))
            ELSE IF s[Len(s)] = " " THEN strip(SubSeq(s, 1, Len(s) - 1))
            ELSE s

\* The value of a run of digits and single underscores, left to right.
RECURSIVE digits_val(_, _)
digits_val(s, acc) == IF s = <<>> THEN acc
                      ELSE IF Head(s) = "_" THEN digits_val(Tail(s), acc)
                      ELSE digits_val(Tail(s), acc * 10 + DigitVal(Head(s)))

\* Python accepts digits with single underscores between them.
digits_ok(s) == /\ Len(s) > 0
                /\ \A i \in 1..Len(s) : IsDigit(s[i]) \/ s[i] = "_"
                /\ IsDigit(s[1]) /\ IsDigit(s[Len(s)])
                /\ \A i \in 1..(Len(s) - 1) : ~(s[i] = "_" /\ s[i + 1] = "_")

\* int(s): [ok |-> TRUE, val |-> n], or ok = FALSE where Python raises ValueError.
py_int(s) ==
    LET t == strip(s)
        signed == t # <<>> /\ (Head(t) = "-" \/ Head(t) = "+")
        body == IF signed THEN Tail(t) ELSE t
        mag == digits_val(body, 0)
    IN  IF digits_ok(body)
        THEN [ok |-> TRUE,
              val |-> IF signed /\ Head(t) = "-" THEN 0 - mag ELSE mag]
        ELSE [ok |-> FALSE, val |-> 0]

\* s.split(sep) for a one-character separator.
RECURSIVE split(_, _)
split(s, sep) ==
    IF \A i \in 1..Len(s) : s[i] # sep THEN <<s>>
    ELSE LET k == CHOOSE i \in 1..Len(s) :
                    s[i] = sep /\ \A j \in 1..(i - 1) : s[j] # sep
         IN  <<SubSeq(s, 1, k - 1)>> \o split(SubSeq(s, k + 1, Len(s)), sep)

(***************************************************************************)
(* Input rows                                                              *)
(***************************************************************************)
Ids == {<<"A">>, <<"B">>}

SeqNames == {<<"c", "1">>, <<"c", "2">>}

Coords == 0..MaxCoord

\* Column 1 (the BUSCO status) is never read.
Status == <<"C">>

RowsOn(ids, names, coords) ==
    {<<id, Status, name, s, e>> :
        id \in ids, name \in names, s \in coords, e \in coords}

CoordFields == {str_int(c) : c \in Coords}

\* A blank line, a comment, a two-column row, a four-column row and rows
\* whose coordinate columns are no integers.
MalformedRows ==
    { <<>>,
      <<<<"#", "A">>, Status, <<"c", "1">>, <<"0">>, <<"1">>>>,
      <<<<"#">>>>,
      <<<<"A">>, <<"M">>>>,
      <<<<"B">>, Status, <<"c", "1">>, <<"1">>>>,
      <<<<"A">>, Status, <<"c", "1">>, <<"x">>, <<"1">>>>,
      <<<<"B">>, Status, <<"c", "2">>, <<"0">>, <<"1", ".", "5">>>>,
      <<<<"A">>, Status, <<"c", "1">>, <<"x">>>> }

\* Coordinate columns for read_ids alone: integers in either order, a
\* negative one, and one int() refuses.
ReadCoords == {<<"0">>, <<"2">>, <<"-", "1">>, <<"x">>}

\* Other spellings Python's int() reads or refuses.
ExtraRows ==
    { <<<<"A">>, Status, <<"c", "2">>, <<" ", "2", " ">>, <<"1">>>>,
      <<<<"A">>, Status, <<"c", "2">>, <<"1", "_", "0">>, <<"+", "3">>>>,
      <<<<"B">>, Status, <<"c", "1">>, <<"1">>, <<"1", "_", "_", "0">>>>,
      <<<<"B">>, Status, <<"c", "1">>, <<"-", "3">>, <<>>>>,
      <<<<"B">>, Status, <<"c", "1">>, <<"_", "1">>, <<"-">>>> }

\* The files of at most n rows of a set of rows.
FilesOf(rowset, n) == UNION {[1..k -> rowset] : k \in 0..n}

(***************************************************************************)
(* read_ids                                                                *)
(***************************************************************************)
Raise(e) == [exc |-> e, val |-> <<>>]

Return(v) == [exc |-> "", val |-> v]

\* The mutant of get_start_end that returns the pair as read.
get_start_end_unordered(r) ==
    LET start == py_int(r[4])
        end == py_int(r[5])
    IN  IF Len(r) < 4 THEN Raise("IndexError")
        ELSE IF ~start.ok THEN Raise("ValueError")
        ELSE IF Len(r) < 5 THEN Raise("IndexError")
        ELSE IF ~end.ok THEN Raise("ValueError")
        ELSE Return(<<start.val, end.val>>)

\* get_start_end(row): row[3] and row[4] of the code are r[4] and r[5]; a
\* missing column raises IndexError, a column int() refuses ValueError.
get_start_end(r) ==
    LET start == py_int(r[4])
        end == py_int(r[5])
    IN  IF Len(r) < 4 THEN Raise("IndexError")
        ELSE IF ~start.ok THEN Raise("ValueError")
        ELSE IF Len(r) < 5 THEN Raise("IndexError")
        ELSE IF ~end.ok THEN Raise("ValueError")
        ELSE Return(IF start.val < end.val THEN <<start.val, end.val>>
                    ELSE <<end.val, start.val>>)

\* The mutant of dict_set that keeps the first entry of a key.
dict_set_first(ids, key, text, start, end) ==
    IF \E i \in 1..Len(ids) : ids[i][1] = key
    THEN ids
    ELSE Append(ids, <<key, text, start, end>>)

\* ids[key] = (text, start, end) on an insertion-ordered dict: an existing
\* key keeps its place.
dict_set(ids, key, text, start, end) ==
    IF \E i \in 1..Len(ids) : ids[i][1] = key
    THEN [i \in 1..Len(ids) |->
            IF ids[i][1] = key THEN <<key, text, start, end>> ELSE ids[i]]
    ELSE Append(ids, <<key, text, start, end>>)

starts_with_hash(s) == Len(s) > 0 /\ s[1] = "#"

\* One iteration of the loop of read_ids: the dict after the row, or the
\* exception that leaves read_ids.
read_row(ids, r) ==
    IF Len(r) = 0 THEN Raise("IndexError")
    ELSE IF starts_with_hash(r[1]) THEN Return(ids)
    ELSE IF Len(r) < 3 THEN Return(ids)
    ELSE LET se == get_start_end(r)
         IN  IF se.exc = "IndexError" THEN Return(ids)
             ELSE IF se.exc # "" THEN Raise(se.exc)
             ELSE Return(dict_set(ids, r[1], r[3], se.val[1], se.val[2]))

\* read_ids(file) over the rows of a file.
RECURSIVE read_from(_, _)
read_from(ids, file) ==
    IF file = <<>> THEN Return(ids)
    ELSE LET res == read_row(ids, Head(file))
         IN  IF res.exc # "" THEN res ELSE read_from(res.val, Tail(file))

read_ids(file) == read_from(<<>>, file)

\* The inputs of a run of main, of at most one row for each identifier: file1
\* lies on the first sequence, in file2 the second identifier lies on
\* either, and both files may hold malformed rows.
Files1 ==
    FilesOf(RowsOn(Ids, {<<"c", "1">>}, CoordFields) \cup MalformedRows,
            Cardinality(Ids))

Files2 ==
    FilesOf(RowsOn({<<"A">>}, {<<"c", "1">>}, CoordFields)
                \cup RowsOn({<<"B">>}, SeqNames, CoordFields)
                \cup MalformedRows,
            Cardinality(Ids))

ReadResults1 == {read_ids(f) : f \in Files1}

ReadResults2 == {read_ids(f) : f \in Files2}

\* The inputs of a run of read_ids alone.
ReadFiles ==
    FilesOf(RowsOn({<<"A">>}, {<<"c", "1">>}, ReadCoords)
                \cup RowsOn({<<"B">>}, {<<"c", "2">>}, ReadCoords)
                \cup MalformedRows \cup ExtraRows,
            MaxRows)

(***************************************************************************)
(* find_overlaps                                                           *)
(***************************************************************************)
\* An entry of ids.items() is <<id, text, start, end>>.

\* The mutant of overlapping that takes the intervals as open.
overlapping_strict(e1, e2) ==
    e1[2] = e2[2] /\ e1[3] < e2[4] /\ e2[3] < e1[4]

\* text1 == text2 and start1 <= end2 and start2 <= end1
overlapping(e1, e2) ==
    e1[2] = e2[2] /\ e1[3] <= e2[4] /\ e2[3] <= e1[4]

\* The mutant of pair_record that reports the whole of interval 1 as not
\* overlapping.
pair_record_whole(e1, e2) ==
    LET overlap_length == Max(0, Min(e1[4], e2[4]) - Max(e1[3], e2[3]))
    IN  <<e1[1], e2[1], overlap_length, e1[4] - e1[3],
          e2[4] - e2[3] - overlap_length>>

\* The tuple appended for an overlapping pair.
pair_record(e1, e2) ==
    LET overlap_length == Max(0, Min(e1[4], e2[4]) - Max(e1[3], e2[3]))
        non_overlap_length1 == e1[4] - e1[3] - overlap_length
        non_overlap_length2 == e2[4] - e2[3] - overlap_length
    IN  <<e1[1], e2[1], overlap_length, non_overlap_length1, non_overlap_length2>>

\* The mutant of unmatched_record that reports no length at all.
unmatched_record_zero(e1) == <<e1[1], NoneValue, 0, 0, 0>>

\* The tuple appended when foundIn2 stayed False.
unmatched_record(e1) == <<e1[1], NoneValue, 0, e1[4] - e1[3], 0>>

\* The mutant of inner_loop that stops at the first overlapping id2.
inner_loop_first(e1, ids2_) ==
    LET found == SelectSeq(ids2_, LAMBDA e2 : overlapping(e1, e2))
    IN  IF found = <<>> THEN <<unmatched_record(e1)>>
        ELSE <<pair_record(e1, found[1])>>

\* The body of the outer loop for one id1: the tuples it appends.
inner_loop(e1, ids2_) ==
    LET found == SelectSeq(ids2_, LAMBDA e2 : overlapping(e1, e2))
    IN  IF found = <<>> THEN <<unmatched_record(e1)>>
        ELSE [k \in 1..Len(found) |-> pair_record(e1, found[k])]

RECURSIVE find_overlaps(_, _)
find_overlaps(ids1_, ids2_) ==
    IF ids1_ = <<>> THEN <<>>
    ELSE inner_loop(Head(ids1_), ids2_) \o find_overlaps(Tail(ids1_), ids2_)

(***************************************************************************)
(* Sorting and the two consumers                                           *)
(***************************************************************************)
\* Python's sort with reverse=True, keys[i] being the key of seq[i]:
\* descending by key, equal keys in their original order.
sort_reverse(seq, keys) ==
    LET n == Len(seq)
        rank(i) == Cardinality({j \in 1..n :
                        \/ keys[j] > keys[i]
                        \/ keys[j] = keys[i] /\ j < i}) + 1
    IN  [p \in 1..n |-> seq[CHOOSE i \in 1..n : rank(i) = p]]

\* key=lambda x: x[2] + x[3] of generate_image
image_key(x) == x[3] + x[4]

\* key=lambda x: x[2] of write_overlaps
write_key(x) == x[3]

\* The list generate_image leaves behind: overlaps.sort(...) sorts the
\* caller's list.
image_sorted(ovs) ==
    sort_reverse(ovs, [i \in 1..Len(ovs) |-> image_key(ovs[i])])

\* The line written for one tuple.
format_line(x) ==
    str_id(x[1]) \o <<TAB>> \o str_id(x[2]) \o <<TAB>> \o str_int(x[3])
        \o <<TAB>> \o str_int(x[4]) \o <<TAB>> \o str_int(x[5]) \o <<NL>>

RECURSIVE concat_lines(_)
concat_lines(seq) ==
    IF seq = <<>> THEN <<>> ELSE format_line(Head(seq)) \o concat_lines(Tail(seq))

\* sorted(overlaps, key=lambda x: x[2], reverse=True): a sorted copy.
write_sorted(ovs) ==
    sort_reverse(ovs, [i \in 1..Len(ovs) |-> write_key(ovs[i])])

\* The text write_overlaps writes: the lines of its sorted copy.
write_overlaps(ovs) == concat_lines(write_sorted(ovs))

(***************************************************************************)
(* main                                                                    *)
(***************************************************************************)
Init ==
    /\ pc = "read1"
    /\ rows = <<>>
    /\ ids1 = <<>>
    /\ ids2 = <<>>
    /\ overlaps = <<>>
    /\ out = <<>>
    /\ err = ""
    /\ uploader = <<>>
    /\ renamer = <<>>
    /\ templater = <<>>

\* ids1 = read_ids(args.file1), for any input file.
ReadIds1 ==
    /\ pc = "read1"
    /\ \E res \in ReadResults1 :
         IF res.exc = ""
         THEN /\ ids1' = res.val
              /\ pc' = "read2"
              /\ UNCHANGED err
         ELSE /\ pc' = "failed"
              /\ err' = res.exc
              /\ UNCHANGED ids1
    /\ UNCHANGED <<rows, ids2, overlaps, out, uploader, renamer, templater>>

\* ids2 = read_ids(args.file2), for any input file.
ReadIds2 ==
    /\ pc = "read2"
    /\ \E res \in ReadResults2 :
         IF res.exc = ""
         THEN /\ ids2' = res.val
              /\ pc' = "find"
              /\ UNCHANGED err
         ELSE /\ pc' = "failed"
              /\ err' = res.exc
              /\ UNCHANGED ids2
    /\ UNCHANGED <<rows, ids1, overlaps, out, uploader, renamer, templater>>

\* overlaps = find_overlaps(ids1, ids2)
FindOverlaps ==
    /\ pc = "find"
    /\ overlaps' = find_overlaps(ids1, ids2)
    /\ pc' = "image"
    /\ UNCHANGED <<rows, ids1, ids2, out, err, uploader, renamer, templater>>

\* generate_image(overlaps): the list is sorted in place, then max() of an
\* empty generator raises ValueError.
GenerateImage ==
    /\ pc = "image"
    /\ overlaps' = image_sorted(overlaps)
    /\ IF overlaps = <<>>
       THEN pc' = "failed" /\ err' = "ValueError"
       ELSE pc' = "write" /\ UNCHANGED err
    /\ UNCHANGED <<rows, ids1, ids2, out, uploader, renamer, templater>>

\* write_overlaps(overlaps, args.outfile)
WriteOverlaps ==
    /\ pc = "write"
    /\ out' = write_overlaps(overlaps)
    /\ pc' = "done"
    /\ UNCHANGED <<rows, ids1, ids2, overlaps, err, uploader, renamer, templater>>

Next ==
    \/ ReadIds1
    \/ ReadIds2
    \/ FindOverlaps
    \/ GenerateImage
    \/ WriteOverlaps

Spec == Init /\ [][Next]_vars

(***************************************************************************)
(* read_ids alone, on a file kept in rows                                  *)
(***************************************************************************)
InitRead ==
    /\ pc = "read1"
    /\ rows \in ReadFiles
    /\ ids1 = <<>>
    /\ ids2 = <<>>
    /\ overlaps = <<>>
    /\ out = <<>>
    /\ err = ""
    /\ uploader = <<>>
    /\ renamer = <<>>
    /\ templater = <<>>

\* ids1 = read_ids(rows)
ReadFile ==
    /\ pc = "read1"
    /\ LET res == read_ids(rows)
       IN  IF res.exc = ""
           THEN /\ ids1' = res.val
                /\ pc' = "read2"
                /\ UNCHANGED err
           ELSE /\ pc' = "failed"
                /\ err' = res.exc
                /\ UNCHANGED ids1
    /\ UNCHANGED <<rows, ids2, overlaps, out, uploader, renamer, templater>>

NextRead == ReadFile

SpecRead == InitRead /\ [][NextRead]_vars

(***************************************************************************)
(* scripts/raw-to-s3.py                                                    *)
(***************************************************************************)
\* uploader is [argvars, variables, directory, config, fs0, fs, uploads,
\* index]: args.vars, the dict built from it, args.directory, config["files"]
\* as a sequence of [filename, s3path], the local file system at the start
\* and now (path -> "file" or "dir"), the calls of s3.upload_fileobj so far
\* and the number of config entries the loop has taken.

\* s.endswith(suffix)
endswith(s, suffix) ==
    Len(s) >= Len(suffix)
        /\ SubSeq(s, Len(s) - Len(suffix) + 1, Len(s)) = suffix

\* re.split(r"{|}", string): the parts between braces of either kind.
RECURSIVE split_braces(_)
split_braces(s) ==
    IF \A i \in 1..Len(s) : s[i] \notin {"{", "}"} THEN <<s>>
    ELSE LET k == CHOOSE i \in 1..Len(s) :
                    s[i] \in {"{", "}"} /\ \A j \in 1..(i - 1) : s[j] \notin {"{", "}"}
         IN  <<SubSeq(s, 1, k - 1)>> \o split_braces(SubSeq(s, k + 1, Len(s)))

\* "".join(parts)
RECURSIVE join(_)
join(parts) == IF parts = <<>> THEN <<>> ELSE Head(parts) \o join(Tail(parts))

\* key in variables, variables[key] on the dict as a sequence of <<key, value>>.
has_key(variables, key) == \E i \in 1..Len(variables) : variables[i][1] = key

lookup(variables, key) ==
    variables[CHOOSE i \in 1..Len(variables) : variables[i][1] = key][2]

\* substitute(string, variables): the parts at odd index (from 0) are
\* variable names; a name that is no key ends the script by sys.exit(1).
substitute(string, variables) ==
    LET parts == split_braces(string)
        named == {i \in 1..Len(parts) : i % 2 = 0}
    IN  IF \E i \in named : ~has_key(variables, parts[i])
        THEN Raise("SystemExit")
        ELSE Return(join([i \in 1..Len(parts) |->
                            IF i \in named THEN lookup(variables, parts[i])
                            ELSE parts[i]]))

\* variables[key] = value on the dict being built.
var_set(variables, key, value) ==
    IF has_key(variables, key)
    THEN [i \in 1..Len(variables) |->
            IF variables[i][1] = key THEN <<key, value>> ELSE variables[i]]
    ELSE Append(variables, <<key, value>>)

\* {var.split("=")[0]: var.split("=")[1] for var in args.vars}: IndexError
\* for an argument without "=", TypeError when args.vars is None.
RECURSIVE vars_from(_, _)
vars_from(variables, argvars) ==
    IF argvars = <<>> THEN Return(variables)
    ELSE LET fields == split(Head(argvars), "=")
         IN  IF Len(fields) < 2 THEN Raise("IndexError")
             ELSE vars_from(var_set(variables, fields[1], fields[2]), Tail(argvars))

parse_vars(argvars) ==
    IF argvars = NoneValue THEN Raise("TypeError") ELSE vars_from(<<>>, argvars)

\* os.path.join(directory, filename)
path_join(directory, filename) ==
    IF filename # <<>> /\ Head(filename) = "/" THEN filename
    ELSE IF directory = <<>> \/ directory[Len(directory)] = "/"
         THEN directory \o filename
    ELSE directory \o <<"/">> \o filename

isfile(fs, path) == path \in DOMAIN fs /\ fs[path] = "file"

isdir(fs, path) == path \in DOMAIN fs /\ fs[path] = "dir"

\* The file system with a regular file written at path.
with_file(fs, path) ==
    [q \in DOMAIN fs \cup {path} |-> IF q = path THEN "file" ELSE fs[q]]

\* os.remove(path)
without(fs, path) == [q \in DOMAIN fs \ {path} |-> fs[q]]

TarGz == <<".", "t", "a", "r", ".", "g", "z">>
Tar == <<".", "t", "a", "r">>
Gz == <<".", "g", "z">>

\* create_temp_file(filepath, s3path): the path to upload and the file
\* system after it; tarfile adds a file or a directory, open(filepath, "rb")
\* of the gzip branch raises IsADirectoryError on a directory, and so does
\* writing the archive over a directory.
create_temp_file(fs, filepath, s3path) ==
    LET suffix == IF endswith(s3path, TarGz) /\ ~endswith(filepath, TarGz) THEN TarGz
                  ELSE IF endswith(s3path, Tar) /\ ~endswith(filepath, Tar) THEN Tar
                  ELSE IF endswith(s3path, Gz) /\ ~endswith(filepath, Gz) THEN Gz
                  ELSE <<>>
        temp_filepath == filepath \o suffix
    IN  IF suffix = <<>> THEN [exc |-> "", val |-> filepath, fs |-> fs]
        ELSE IF suffix = Gz /\ isdir(fs, filepath)
             THEN [exc |-> "IsADirectoryError", val |-> <<>>, fs |-> fs]
        ELSE IF isdir(fs, temp_filepath)
             THEN [exc |-> "IsADirectoryError", val |-> <<>>, fs |-> fs]
        ELSE [exc |-> "", val |-> temp_filepath, fs |-> with_file(fs, temp_filepath)]

\* The body of the loop of upload_files_to_s3 for one entry: what it leaves
\* of the file system and of the uploads, and the exception that ends the
\* script, if any.
upload_entry(u, file_config) ==
    LET filename == substitute(file_config.filename, u.variables)
        filepath == path_join(u.directory, filename.val)
        s3path == substitute(file_config.s3path, u.variables)
        temp == create_temp_file(u.fs, filepath, s3path.val)
        sent == [s3path |-> s3path.val, data |-> temp.val, entry |-> u.index + 1]
    IN  IF filename.exc # "" THEN [exc |-> filename.exc, fs |-> u.fs, uploads |-> u.uploads]
        ELSE IF ~isfile(u.fs, filepath) /\ ~isdir(u.fs, filepath)
             THEN [exc |-> "", fs |-> u.fs, uploads |-> u.uploads]
        ELSE IF s3path.exc # "" THEN [exc |-> s3path.exc, fs |-> u.fs, uploads |-> u.uploads]
        ELSE IF temp.exc # "" THEN [exc |-> temp.exc, fs |-> temp.fs, uploads |-> u.uploads]
        ELSE IF isdir(temp.fs, temp.val)
             THEN [exc |-> "IsADirectoryError", fs |-> temp.fs, uploads |-> u.uploads]
        ELSE [exc |-> "",
              fs |-> IF temp.val # filepath THEN without(temp.fs, temp.val) ELSE temp.fs,
              uploads |-> Append(u.uploads, sent)]

\* The inputs of a run of the upload script.
ArgSet ==
    { <<"k", "=", "a">>, <<"k">>, <<"k", "=", "a", "=", "b">>, <<"j", "=", "d">> }

ArgVars == {NoneValue} \cup FilesOf(ArgSet, MaxVars)

FileNames == { <<"{", "k", "}">>, <<"d">>, <<"a", ".", "g", "z">> }

S3Paths == { <<"x">>, <<"{", "k", "}", ".", "g", "z">>, <<"x">> \o Tar, <<"x">> \o TarGz }

Configs ==
    FilesOf({[filename |-> f, s3path |-> p] : f \in FileNames, p \in S3Paths},
            MaxEntries)

Directory == <<"w">>

\* A file a, a directory d and a file a.gz under the directory, each there or not.
LocalFiles ==
    { [q \in present |->
          IF q = <<"w", "/", "d">> THEN "dir" ELSE "file"] :
        present \in SUBSET { <<"w", "/", "a">>, <<"w", "/", "d">>,
                             <<"w", "/", "a", ".", "g", "z">> } }

InitUpload ==
    /\ pc = "main"
    /\ rows = <<>>
    /\ ids1 = <<>>
    /\ ids2 = <<>>
    /\ overlaps = <<>>
    /\ out = <<>>
    /\ err = ""
    /\ \E a \in ArgVars, c \in Configs, f \in LocalFiles :
          uploader = [argvars |-> a, variables |-> <<>>, directory |-> Directory,
                      config |-> c, fs0 |-> f, fs |-> f, uploads |-> <<>>,
                      index |-> 0]
    /\ renamer = <<>>
    /\ templater = <<>>

\* The dict comprehension of __main__ and its except clause.
ParseVars ==
    /\ pc = "main"
    /\ LET res == parse_vars(uploader.argvars)
       IN  IF res.exc = "IndexError"
           THEN pc' = "exit1" /\ err' = "SystemExit" /\ UNCHANGED uploader
           ELSE IF res.exc # ""
           THEN pc' = "failed" /\ err' = res.exc /\ UNCHANGED uploader
           ELSE /\ uploader' = [uploader EXCEPT !.variables = res.val]
                /\ pc' = IF uploader.config = <<>> THEN "done" ELSE "upload"
                /\ UNCHANGED err
    /\ UNCHANGED <<rows, ids1, ids2, overlaps, out, renamer, templater>>

\* One entry of config["files"] in upload_files_to_s3.
UploadEntry ==
    /\ pc = "upload"
    /\ LET res == upload_entry(uploader, uploader.config[uploader.index + 1])
       IN  /\ uploader' = [uploader EXCEPT !.fs = res.fs, !.uploads = res.uploads,
                                           !.index = uploader.index + 1]
           /\ IF res.exc = "SystemExit" THEN pc' = "exit1" /\ err' = res.exc
              ELSE IF res.exc # "" THEN pc' = "failed" /\ err' = res.exc
              ELSE /\ pc' = IF uploader.index + 1 = Len(uploader.config)
                            THEN "done" ELSE "upload"
                   /\ UNCHANGED err
    /\ UNCHANGED <<rows, ids1, ids2, overlaps, out, renamer, templater>>

NextUpload ==
    \/ ParseVars
    \/ UploadEntry

SpecUpload == InitUpload /\ [][NextUpload]_vars

(***************************************************************************)
(* replace_substrings of scripts/import-from-s3.py                         *)
(***************************************************************************)
\* A YAML value is <<"str", chars>>, <<"int", n>>, <<"list", items>> or
\* <<"dict", entries>> with entries a sequence of <<key, value>>.
\* templater is [template, original, assembly_info].

\* s.replace(old, new) for a non-empty old: every occurrence, left to right,
\* without overlap.
RECURSIVE py_replace(_, _, _)
py_replace(s, old, new) ==
    IF Len(s) < Len(old) THEN s
    ELSE IF SubSeq(s, 1, Len(old)) = old
         THEN new \o py_replace(SubSeq(s, Len(old) + 1, Len(s)), old, new)
    ELSE <<Head(s)>> \o py_replace(Tail(s), old, new)

\* f"{{{info_key}}}"
placeholder(info_key) == <<"{">> \o info_key \o <<"}">>

\* str(info_value)
str_value(v) == IF v[1] = "int" THEN str_int(v[2]) ELSE v[2]

\* The loop over assembly_info.items() on one string.
RECURSIVE replace_all(_, _)
replace_all(value, info) ==
    IF info = <<>> THEN value
    ELSE replace_all(py_replace(value, placeholder(Head(info)[1]),
                                str_value(Head(info)[2])),
                     Tail(info))

RECURSIVE replace_substrings(_, _)

\* An item of a list value: a dict or a str is replaced, anything else
\* (a list too) is left as it is.
replace_item(item, info) ==
    IF item[1] = "dict" THEN replace_substrings(item, info)
    ELSE IF item[1] = "str" THEN <<"str", replace_all(item[2], info)>>
    ELSE item

\* A value of the template.
replace_value(value, info) ==
    IF value[1] = "dict" THEN replace_substrings(value, info)
    ELSE IF value[1] = "str" THEN <<"str", replace_all(value[2], info)>>
    ELSE IF value[1] = "list"
         THEN <<"list", [i \in 1..Len(value[2]) |-> replace_item(value[2][i], info)]>>
    ELSE value

replace_substrings(template_, info) ==
    <<"dict", [i \in 1..Len(template_[2]) |->
                <<template_[2][i][1], replace_value(template_[2][i][2], info)>>]>>

\* The inputs: strings with and without the placeholder {n}, a number, and
\* lists and dicts of them, nested to MaxDepth.
Leaves == { <<"str", <<"{", "n", "}">>>>, <<"str", <<"z">>>>, <<"int", 7>> }

RECURSIVE ValuesTo(_)
ValuesTo(depth) ==
    IF depth = 0 THEN Leaves
    ELSE ValuesTo(depth - 1)
            \cup {<<"list", <<v>>>> : v \in ValuesTo(depth - 1)}
            \cup {<<"dict", <<<<<<"k">>, v>>>>>> : v \in ValuesTo(depth - 1)}

Templates ==
    {<<"dict", <<<<<<"a">>, v>>>>>> : v \in ValuesTo(MaxDepth)}
    \cup {<<"dict", <<<<<<"a">>, v>>, <<<<"b">>, w>>>>>> :
            v \in ValuesTo(MaxDepth), w \in Leaves}

Infos ==
    { <<>>,
      <<<<<<"n">>, <<"str", <<"v">>>>>>>>,
      <<<<<<"n">>, <<"int", 5>>>>>>,
      <<<<<<"m">>, <<"str", <<"w">>>>>>, <<<<"n">>, <<"str", <<"v", "{", "n">>>>>>>> }

InitTemplate ==
    /\ pc = "load"
    /\ rows = <<>>
    /\ ids1 = <<>>
    /\ ids2 = <<>>
    /\ overlaps = <<>>
    /\ out = <<>>
    /\ err = ""
    /\ uploader = <<>>
    /\ renamer = <<>>
    /\ \E t \in Templates, info \in Infos :
          templater = [template |-> t, original |-> t, assembly_info |-> info]

\* replaced_template = replace_substrings(template, assembly_info)
ReplaceSubstrings ==
    /\ pc = "load"
    /\ templater' = [templater EXCEPT
                        !.template = replace_substrings(templater.template,
                                                        templater.assembly_info)]
    /\ pc' = "replaced"
    /\ UNCHANGED <<rows, ids1, ids2, overlaps, out, err, uploader, renamer>>

NextTemplate == ReplaceSubstrings

SpecTemplate == InitTemplate /\ [][NextTemplate]_vars

(***************************************************************************)
(* main of scripts/GCF2GCA.py                                              *)
(***************************************************************************)
\* The bucket is a set of <<key, content>> with one content per key.
\* renamer is [gcf, gca, prefix, store0, store, files, index, calls].

startswith(s, prefix) ==
    /\ Len(prefix) <= Len(s)
    /\ SubSeq(s, 1, Len(prefix)) = prefix

get_object(store, key) == (CHOOSE o \in store : o[1] = key)[2]

\* s3.copy_object(Bucket, CopySource = {Bucket, Key = file}, Key = new_key)
copy_object(store, file, new_key) ==
    {o \in store : o[1] # new_key} \cup {<<new_key, get_object(store, file)>>}

\* s3.delete_object(Bucket, Key = file)
delete_object(store, file) == {o \in store : o[1] # file}

\* f"{prefix}/{gcf_accession}/"
folder(prefix, accession) == prefix \o <<"/">> \o accession \o <<"/">>

\* file.replace(gcf_accession, gca_accession)
new_key_of(file, gcf, gca) == py_replace(file, gcf, gca)

\* The keys gh_utils.list_files returns: those under the folder, in an order
\* the listing decides.
listed_keys(store, prefix, gcf) ==
    {o[1] : o \in {x \in store : startswith(x[1], folder(prefix, gcf))}}

Orders(S) ==
    {f \in [1..Cardinality(S) -> S] : \A i, j \in 1..Cardinality(S) : f[i] = f[j] => i = j}

Accessions == { <<"a">>, <<"b">>, <<"a", "a">> }
Prefixes == { <<"p">>, <<"a">> }
ObjectNames == { <<"a">>, <<"b">> }

KeysUnder(prefix) ==
    {folder(prefix, acc) \o n : acc \in Accessions, n \in ObjectNames}

\* Every object holds a content of its own, named after its first key.
Buckets(prefix) ==
    {{<<k, k>> : k \in K} :
        K \in {X \in SUBSET KeysUnder(prefix) : Cardinality(X) <= MaxObjects}}

InitRename ==
    /\ pc = "main"
    /\ rows = <<>>
    /\ ids1 = <<>>
    /\ ids2 = <<>>
    /\ overlaps = <<>>
    /\ out = <<>>
    /\ err = ""
    /\ uploader = <<>>
    /\ templater = <<>>
    /\ \E gcf \in Accessions, gca \in Accessions, prefix \in Prefixes :
          \E bucket \in Buckets(prefix) :
             renamer = [gcf |-> gcf, gca |-> gca, prefix |-> prefix,
                        store0 |-> bucket, store |-> bucket,
                        files |-> <<>>, index |-> 1, calls |-> <<>>]

\* gcf_files = gh_utils.list_files(s3, bucket, f"{prefix}/{gcf}/", recursive=True)
ListFiles ==
    /\ pc = "main"
    /\ \E files \in Orders(listed_keys(renamer.store, renamer.prefix, renamer.gcf)) :
          /\ renamer' = [renamer EXCEPT !.files = files]
          /\ pc' = IF files = <<>> THEN "done" ELSE "move"
    /\ UNCHANGED <<rows, ids1, ids2, overlaps, out, err, uploader, templater>>

\* One turn of the loop: the copy to the new key, then the delete of the old.
MoveFile ==
    /\ pc = "move"
    /\ LET file == renamer.files[renamer.index]
           new_key == new_key_of(file, renamer.gcf, renamer.gca)
       IN /\ renamer' = [renamer EXCEPT
                  !.store = delete_object(copy_object(renamer.store, file, new_key), file),
                  !.calls = renamer.calls \o <<<<"copy", file, new_key>>, <<"delete", file>>>>,
                  !.index = renamer.index + 1]
          /\ pc' = IF renamer.index = Len(renamer.files) THEN "done" ELSE "move"
    /\ UNCHANGED <<rows, ids1, ids2, overlaps, out, err, uploader, templater>>

\* A store may refuse the copy of an object onto itself: copy_object raises
\* and the script ends there.
CopyRejected ==
    /\ pc = "move"
    /\ LET file == renamer.files[renamer.index]
           new_key == new_key_of(file, renamer.gcf, renamer.gca)
       IN /\ new_key = file
          /\ renamer' = [renamer EXCEPT
                  !.calls = renamer.calls \o <<<<"copy", file, new_key>>>>]
    /\ pc' = "failed"
    /\ err' = "ClientError"
    /\ UNCHANGED <<rows, ids1, ids2, overlaps, out, uploader, templater>>

NextRename == ListFiles \/ MoveFile \/ CopyRejected

SpecRename == InitRename /\ [][NextRename]_vars

(***************************************************************************)
(* Properties of the matcher                                               *)
(***************************************************************************)
\* find_overlaps has returned and its result is held in overlaps.
Matched == pc \in {"image", "write", "done"}

\* The closed intervals of two entries on the same sequence intersect.
Intersect(e1, e2) == e1[2] = e2[2] /\ e1[3] <= e2[4] /\ e2[3] <= e1[4]

\* The intersection length of two entries.
Common(e1, e2) == Max(0, Min(e1[4], e2[4]) - Max(e1[3], e2[3]))

\* The positions in overlaps of the records of an id1.
RecordsOf(id1) == {k \in 1..Len(overlaps) : overlaps[k][1] = id1}

\* The positions in ids2 of the entries that intersect an entry of ids1.
Partners(e1) == {j \in 1..Len(ids2) : Intersect(e1, ids2[j])}

\* C1: a record (id1, id2, ...) is emitted for a pair exactly when the two
\* sequence names are equal, start1 <= end2 and start2 <= end1; an emitted
\* pair carries overlap_length = max(0, min(end1,end2) - max(start1,start2)),
\* non_overlap_1 = (end1-start1) - overlap_length and
\* non_overlap_2 = (end2-start2) - overlap_length.
C1_PairEmittedIffOverlap ==
    Matched =>
        /\ \A i \in 1..Len(ids1), j \in 1..Len(ids2) :
              (\E k \in 1..Len(overlaps) :
                  overlaps[k][1] = ids1[i][1] /\ overlaps[k][2] = ids2[j][1])
              <=> /\ ids1[i][2] = ids2[j][2]
                  /\ ids1[i][3] <= ids2[j][4]
                  /\ ids2[j][3] <= ids1[i][4]
        /\ \A k \in 1..Len(overlaps) :
              overlaps[k][2] # NoneValue =>
                \E i \in 1..Len(ids1), j \in 1..Len(ids2) :
                    /\ overlaps[k][1] = ids1[i][1]
                    /\ overlaps[k][2] = ids2[j][1]
                    /\ overlaps[k][3] = Common(ids1[i], ids2[j])
                    /\ overlaps[k][4] = (ids1[i][4] - ids1[i][3]) - overlaps[k][3]
                    /\ overlaps[k][5] = (ids2[j][4] - ids2[j][3]) - overlaps[k][3]

\* The scenario of the specification, one unit for five: a pair with all
\* three lengths positive, beside an id2 on another sequence whose
\* coordinates intersect and that has no record.
C1_Witness ==
    /\ pc = "image"
    /\ \E k \in 1..Len(overlaps) :
          overlaps[k][3] > 0 /\ overlaps[k][4] > 0 /\ overlaps[k][5] > 0
    /\ \E i \in 1..Len(ids1), j \in 1..Len(ids2) :
          /\ ids1[i][2] # ids2[j][2]
          /\ ids1[i][3] <= ids2[j][4] /\ ids2[j][3] <= ids1[i][4]
          /\ \A k \in 1..Len(overlaps) :
                ~(overlaps[k][1] = ids1[i][1] /\ overlaps[k][2] = ids2[j][1])

\* C2: an id1 that overlaps no interval of set 2 on the same sequence has
\* exactly one record, (id1, None, 0, end1-start1, 0); every id1 of set 1
\* has at least one record.
C2_UnmatchedOneRecord ==
    Matched =>
        \A i \in 1..Len(ids1) :
            /\ RecordsOf(ids1[i][1]) # {}
            /\ Partners(ids1[i]) = {} =>
                  /\ Cardinality(RecordsOf(ids1[i][1])) = 1
                  /\ \A k \in RecordsOf(ids1[i][1]) :
                        overlaps[k] = <<ids1[i][1], NoneValue, 0,
                                        ids1[i][4] - ids1[i][3], 0>>

\* An id1 of positive length with no partner in a set 2 that is not empty,
\* beside an id1 that has a partner.
C2_Witness ==
    /\ pc = "image"
    /\ ids2 # <<>>
    /\ \E i \in 1..Len(ids1) :
          /\ Partners(ids1[i]) = {}
          /\ ids1[i][4] - ids1[i][3] > 0
          /\ \E k \in 1..Len(overlaps) :
                overlaps[k][1] = ids1[i][1] /\ overlaps[k][2] = NoneValue
    /\ \E i \in 1..Len(ids1) : Partners(ids1[i]) # {}

\* C3: an id1 that overlaps k >= 1 entries of set 2 has exactly k records, one
\* for each overlapping id2 and computed from that pair alone, and none with
\* id2 = None.
C3_FanOut ==
    Matched =>
        \A i \in 1..Len(ids1) :
            Partners(ids1[i]) # {} =>
                /\ Cardinality(RecordsOf(ids1[i][1])) = Cardinality(Partners(ids1[i]))
                /\ \A k \in RecordsOf(ids1[i][1]) : overlaps[k][2] # NoneValue
                /\ \A j \in Partners(ids1[i]) :
                      Cardinality({k \in RecordsOf(ids1[i][1]) :
                          overlaps[k] =
                            <<ids1[i][1], ids2[j][1], Common(ids1[i], ids2[j]),
                              (ids1[i][4] - ids1[i][3]) - Common(ids1[i], ids2[j]),
                              (ids2[j][4] - ids2[j][3]) - Common(ids1[i], ids2[j])>>
                          }) = 1

\* An id1 with two partners whose records differ in overlap_length.
C3_Witness ==
    /\ pc = "image"
    /\ \E i \in 1..Len(ids1) :
          /\ Cardinality(Partners(ids1[i])) = 2
          /\ \E k, m \in RecordsOf(ids1[i][1]) :
                overlaps[k][3] # overlaps[m][3] /\ overlaps[k][2] # overlaps[m][2]

\* C4: every record has overlap_length >= 0, non_overlap_1 >= 0 and
\* non_overlap_2 >= 0; overlap_length + non_overlap_1 is the length
\* end1 - start1 of its id1; a record with id2 = None has overlap_length = 0
\* and non_overlap_2 = 0.
C4_LengthsNonNegative ==
    Matched =>
        \A k \in 1..Len(overlaps) :
            /\ overlaps[k][3] >= 0
            /\ overlaps[k][4] >= 0
            /\ overlaps[k][5] >= 0
            /\ \E i \in 1..Len(ids1) :
                  /\ ids1[i][1] = overlaps[k][1]
                  /\ overlaps[k][3] + overlaps[k][4] = ids1[i][4] - ids1[i][3]
            /\ overlaps[k][2] = NoneValue =>
                  overlaps[k][3] = 0 /\ overlaps[k][5] = 0

\* A record with a positive overlap beside a record with id2 = None, from
\* rows that gave the coordinates of both intervals of set 1 in either order.
C4_Witness ==
    /\ pc = "write"
    /\ \E k \in 1..Len(overlaps) : overlaps[k][2] # NoneValue /\ overlaps[k][3] > 0
    /\ \E k \in 1..Len(overlaps) : overlaps[k][2] = NoneValue /\ overlaps[k][4] > 0

(***************************************************************************)
(* Properties of read_ids                                                  *)
(***************************************************************************)
\* A row of five columns, no comment, whose columns 3 and 4 are integers.
WellFormed(r) ==
    /\ Len(r) >= 5
    /\ ~starts_with_hash(r[1])
    /\ py_int(r[4]).ok
    /\ py_int(r[5]).ok

\* C5: for every pair (start, end), in either order or equal, get_start_end
\* returns (min(start,end), max(start,end)); every record stored by read_ids
\* has start <= end and holds the ordered pair of a row of its identifier.
C5_Normalized ==
    /\ \A n \in 1..Len(rows) :
          (Len(rows[n]) >= 5 /\ py_int(rows[n][4]).ok /\ py_int(rows[n][5]).ok) =>
              /\ get_start_end(rows[n]).exc = ""
              /\ get_start_end(rows[n]).val =
                    <<Min(py_int(rows[n][4]).val, py_int(rows[n][5]).val),
                      Max(py_int(rows[n][4]).val, py_int(rows[n][5]).val)>>
    /\ pc = "read2" =>
          \A i \in 1..Len(ids1) :
              /\ ids1[i][3] <= ids1[i][4]
              /\ \E n \in 1..Len(rows) :
                    /\ WellFormed(rows[n])
                    /\ rows[n][1] = ids1[i][1]
                    /\ ids1[i][3] = Min(py_int(rows[n][4]).val, py_int(rows[n][5]).val)
                    /\ ids1[i][4] = Max(py_int(rows[n][4]).val, py_int(rows[n][5]).val)

\* read_ids stored a row whose start was larger than its end, and a row
\* whose start and end were equal.
C5_Witness ==
    /\ pc = "read2"
    /\ Len(ids1) = 2
    /\ \E n \in 1..Len(rows) :
          /\ WellFormed(rows[n])
          /\ py_int(rows[n][4]).val > py_int(rows[n][5]).val
          /\ \E i \in 1..Len(ids1) :
                ids1[i] = <<rows[n][1], rows[n][3],
                            py_int(rows[n][5]).val, py_int(rows[n][4]).val>>
    /\ \E n \in 1..Len(rows) :
          /\ WellFormed(rows[n])
          /\ py_int(rows[n][4]).val = py_int(rows[n][5]).val
          /\ \E i \in 1..Len(ids1) :
                ids1[i] = <<rows[n][1], rows[n][3],
                            py_int(rows[n][4]).val, py_int(rows[n][4]).val>>

\* The tuple a well-formed row stores under its identifier.
StoredBy(r) ==
    <<r[1], r[3], Min(py_int(r[4]).val, py_int(r[5]).val),
      Max(py_int(r[4]).val, py_int(r[5]).val)>>

\* C11: after read_ids has parsed the rows, an identifier has at most one
\* entry, the entry of an identifier is the tuple of the last well-formed
\* row that carries it, whatever rows follow that row, and only identifiers
\* of well-formed rows have an entry.
C11_LastWriteWins ==
    pc = "read2" =>
        /\ \A i, j \in 1..Len(ids1) : ids1[i][1] = ids1[j][1] => i = j
        /\ \A n \in 1..Len(rows) :
              (/\ WellFormed(rows[n])
               /\ \A m \in (n + 1)..Len(rows) :
                     ~(WellFormed(rows[m]) /\ rows[m][1] = rows[n][1]))
              => \E i \in 1..Len(ids1) : ids1[i] = StoredBy(rows[n])
        /\ \A i \in 1..Len(ids1) :
              \E n \in 1..Len(rows) :
                  WellFormed(rows[n]) /\ rows[n][1] = ids1[i][1]

\* Two well-formed rows of one identifier that store different tuples: the
\* mapping holds the tuple of the second.
C11_Witness ==
    /\ pc = "read2"
    /\ Len(rows) = 2
    /\ WellFormed(rows[1]) /\ WellFormed(rows[2])
    /\ rows[1][1] = rows[2][1]
    /\ StoredBy(rows[1]) # StoredBy(rows[2])
    /\ ids1 = <<StoredBy(rows[2])>>


\* C10, as claimed: read_ids never fails, and what it returns is what the
\* well-formed rows of the file alone give, the malformed rows and comments
\* being skipped.
C10_NeverFailsOnMalformedRow ==
    pc # "read1" =>
        /\ pc = "read2"
        /\ err = ""
        /\ ids1 = read_ids(SelectSeq(rows, WellFormed)).val

(***************************************************************************)
(* Properties of the two consumers                                         *)
(***************************************************************************)
\* The lines of a written file: the text before each newline.
lines(text) == LET parts == split(text, NL)
               IN  SubSeq(parts, 1, Len(parts) - 1)

\* A line without its newline, as split on tabs.
Columns(line) == split(line, TAB)

\* The five columns claimed for a record: id2 empty when it is None.
ClaimedColumns(x) ==
    <<x[1], IF x[2] = NoneValue THEN <<>> ELSE x[2],
      str_int(x[3]), str_int(x[4]), str_int(x[5])>>

\* C6, as claimed: the lines of the output are those of the records the
\* matcher produced, by descending overlap_length, records of equal
\* overlap_length in the order the matcher produced them.
C6_TiesInMatcherOrder ==
    pc = "done" =>
        LET produced == write_sorted(find_overlaps(ids1, ids2))
        IN  /\ Len(lines(out)) = Len(produced)
            /\ \A k \in 1..Len(produced) :
                  lines(out)[k] \o <<NL>> = format_line(produced[k])

\* C7, as claimed: the list the caller holds is the same, in the same order,
\* after generate_image and after write_overlaps as before the call.
C7_ConsumersLeaveListAlone ==
    [][(pc = "image" \/ pc = "write") => overlaps' = overlaps]_vars

\* C8, as claimed: one line for each record, of five tab-separated columns
\* id1, id2, overlap_length, non_overlap_1, non_overlap_2, the second column
\* empty for a record whose id2 is None.
C8_FiveColumnsEmptyId2 ==
    pc = "done" =>
        LET written == write_sorted(overlaps)
        IN  /\ Len(lines(out)) = Len(overlaps)
            /\ \A k \in 1..Len(written) :
                  Columns(lines(out)[k]) = ClaimedColumns(written[k])

\* The tuple re-parsed from a line: two strings and three integers.
Reparsed(line) ==
    LET cols == Columns(line)
    IN  IF Len(cols) = 5
        THEN <<cols[1], cols[2], py_int(cols[3]).val, py_int(cols[4]).val,
               py_int(cols[5]).val>>
        ELSE <<>>

\* The tuple claimed to come back for a record.
ClaimedTuple(x) == <<x[1], IF x[2] = NoneValue THEN <<>> ELSE x[2], x[3], x[4], x[5]>>

\* C9, as claimed: the tuples re-parsed from the lines of the output are,
\* counted with multiplicity, the tuples of the records written, None read
\* back as the empty string.
C9_RoundTrip ==
    pc = "done" =>
        /\ Len(lines(out)) = Len(overlaps)
        /\ \A k \in 1..Len(overlaps) :
              Cardinality({m \in 1..Len(lines(out)) :
                              Reparsed(lines(out)[m]) = ClaimedTuple(overlaps[k])})
                = Cardinality({m \in 1..Len(overlaps) :
                              ClaimedTuple(overlaps[m]) = ClaimedTuple(overlaps[k])})

\* C15, as claimed: whatever the two sets, main goes from the visualization
\* step to the tabular write, and the write leaves one line for each record
\* (none for an empty set 1) and ends main normally.
C15_ReachesWrite ==
    [][/\ pc = "image" => pc' = "write"
       /\ pc = "write" => (pc' = "done" /\ Len(lines(out')) = Len(overlaps))]_vars

(***************************************************************************)
(* Properties of the upload script                                         *)
(***************************************************************************)
\* The number of "=" of an argument.
Equals(arg) == Cardinality({i \in 1..Len(arg) : arg[i] = "="})

\* --vars is absent, or one of its arguments is not of the form key=value.
MalformedVars(argvars) ==
    argvars = NoneValue \/ \E i \in 1..Len(argvars) : Equals(argvars[i]) # 1

\* C12, as claimed: when the variable arguments are not all of the form
\* key=value (no "=", more than one "=", or no --vars at all) the script ends
\* with a non-zero status before it takes a config entry or uploads anything.
C12_MalformedVarsAreFatal ==
    (MalformedVars(uploader.argvars) /\ pc # "main") =>
        /\ pc \in {"exit1", "failed"}
        /\ uploader.index = 0
        /\ uploader.uploads = <<>>

\* The path of a config entry and its s3path, as substituted.
EntryPath(i) ==
    path_join(uploader.directory,
              substitute(uploader.config[i].filename, uploader.variables).val)

EntryS3Path(i) == substitute(uploader.config[i].s3path, uploader.variables).val

\* C16, as claimed: an entry whose path is neither a file nor a directory
\* causes no upload and does not stop the loop; an entry whose path exists
\* causes exactly one upload, to its substituted s3path; when the loop has
\* ended no temporary archive is left and no local file has been removed.
C16_EntriesIndependent ==
    /\ err # "IsADirectoryError"
    /\ pc = "done" =>
          /\ uploader.fs = uploader.fs0
          /\ \A i \in 1..Len(uploader.config) :
                LET sent == {k \in 1..Len(uploader.uploads) :
                                uploader.uploads[k].entry = i}
                IN  IF EntryPath(i) \in DOMAIN uploader.fs0
                    THEN /\ Cardinality(sent) = 1
                         /\ \A k \in sent :
                               uploader.uploads[k].s3path = EntryS3Path(i)
                    ELSE sent = {}

(***************************************************************************)
(* Properties of replace_substrings                                        *)
(***************************************************************************)
\* old occurs in s.
Occurs(s, old) ==
    \E i \in 1..(Len(s) - Len(old) + 1) : SubSeq(s, i, i + Len(old) - 1) = old

\* Some string of a value, at any depth, holds the placeholder of a name.
RECURSIVE HoldsPlaceholder(_, _)
HoldsPlaceholder(value, names) ==
    IF value[1] = "str" THEN \E n \in names : Occurs(value[2], placeholder(n))
    ELSE IF value[1] = "list"
         THEN \E i \in 1..Len(value[2]) : HoldsPlaceholder(value[2][i], names)
    ELSE IF value[1] = "dict"
         THEN \E i \in 1..Len(value[2]) : HoldsPlaceholder(value[2][i][2], names)
    ELSE FALSE

\* Two values differ at most in their strings.
RECURSIVE SameButStrings(_, _)
SameButStrings(v, w) ==
    /\ v[1] = w[1]
    /\ IF v[1] = "str" THEN TRUE
       ELSE IF v[1] = "list"
            THEN /\ Len(v[2]) = Len(w[2])
                 /\ \A i \in 1..Len(v[2]) : SameButStrings(v[2][i], w[2][i])
       ELSE IF v[1] = "dict"
            THEN /\ Len(v[2]) = Len(w[2])
                 /\ \A i \in 1..Len(v[2]) :
                       /\ v[2][i][1] = w[2][i][1]
                       /\ SameButStrings(v[2][i][2], w[2][i][2])
       ELSE v = w

SuppliedNames ==
    {templater.assembly_info[i][1] : i \in 1..Len(templater.assembly_info)}

\* C13, as claimed: after the call no string of the template, at any depth
\* of dicts and lists, holds {name} for a supplied name, and what is no
\* string is as it was.
C13_EveryDepthReplaced ==
    pc = "replaced" =>
        /\ ~HoldsPlaceholder(templater.template, SuppliedNames)
        /\ SameButStrings(templater.template, templater.original)

(***************************************************************************)
(* Properties of the accession renaming                                    *)
(***************************************************************************)
\* The places of a call in the log of calls.
CallsAt(call) == {i \in 1..Len(renamer.calls) : renamer.calls[i] = call}

\* C14, as claimed: when the loop has finished, every listed object was
\* copied once to its renamed key and then deleted once, and its content is
\* in the bucket under the renamed key.
C14_NoObjectLost ==
    pc = "done" =>
        \A i \in 1..Len(renamer.files) :
            LET file == renamer.files[i]
                new_key == new_key_of(file, renamer.gcf, renamer.gca)
                copies == CallsAt(<<"copy", file, new_key>>)
                deletes == CallsAt(<<"delete", file>>)
            IN /\ Cardinality(copies) = 1
               /\ Cardinality(deletes) = 1
               /\ \A c \in copies, d \in deletes : c < d
               /\ <<new_key, get_object(renamer.store0, file)>> \in renamer.store

====
